---- MODULE Spec2Model ----
(***************************************************************************)
(* Render lifecycle of ManuscriptWrapper.vue and the head injection        *)
(* composable useHeadInjection.                                            *)
(*                                                                         *)
(* Content values (props.htmlString) are numbers: 0 is the empty string,   *)
(* 1..MaxContent are distinct non-empty documents.  lastHtmlString is <<>> *)
(* for null and <<c>> once content c was recorded.                         *)
(***************************************************************************)
EXTENDS Integers, Sequences, FiniteSets, TLC

\* Number of distinct non-empty documents the parent may pass as htmlString.
MaxContent == 2
\* Number of htmlString changes the parent makes during one run.
MaxChanges == 3
\* Number of ManuscriptWrapper instances the parent creates, one after the
\* other, during one run.
MaxWrappers == 2
\* Number of useHeadInjection() instances on the page.
MaxInstances == 2
\* Number of injectHeadContent calls, and of processStructuredContent calls,
\* during one run.
MaxCalls == 2
\* Number of link/script declarations in one head payload.
MaxPayloadLen == 2

VARIABLES
    generation,              \* which ManuscriptWrapper instance this is
    lifecycle,               \* "setup" | "mounted" | "unmounted"
    htmlString,              \* props.htmlString
    changes,                 \* how many times the parent changed htmlString
    importPc,                \* position of the onBeforeMount import chain
    onload,                  \* onload.value is set
    onrender,                \* onrender.value is set
    selfRef,                 \* selfRef.value is an element
    onloadCalled,            \* onloadCalled.value
    lastHtmlString,          \* <<>> (null) or <<content>>
    executeRenderInProgress,
    manuscriptKey,           \* manuscriptKey.value
    keyWatchOld,             \* value last seen by the manuscriptKey watcher
    renderWatchOld,          \* values last seen by the executeRender watcher
    acts,                    \* executeRender activations past their guards
    onloadCalls,             \* number of onload() invocations
    onrenderCalls,           \* number of onrender() invocations
    onloadOk,                \* some onload() promise fulfilled
    onloadThrew,             \* some onload() call threw or rejected
    renderRejected,          \* some executeRender promise rejected
    onrenderThrew,           \* some onrender() call threw or rejected
    lastOutcome,             \* how the last executeRender call left its guards
    emptySeen,               \* htmlString has been the empty string
    awaitingTypeset,         \* a re-created Manuscript had no entry call yet
    vLastHtmlString,         \* lastHtmlString of the wrapper without the flag
    vOnloadCalled,           \* onloadCalled.value of that wrapper
    vActs,                   \* its activations of executeRender
    vOnloadCalls,            \* its calls of onload so far
    vOnrenderCalls,          \* its calls of onrender so far
    mathState,               \* math of the Manuscript child: "raw" |
                             \* "typeset" | "nested"
    loaderScripts,           \* engine loader script elements in the document
    typesetDone,             \* the pending entry point has typeset the root
    tooltipOpen,             \* a tooltip preview is shown
    tooltipMath,             \* math of the tooltip fragment: "none" |
                             \* "typeset"
    tooltipClosed,           \* some tooltip preview has been closed
    created,                 \* useHeadInjection instances created so far
    apiBase,                 \* per instance: api?.defaults?.baseURL is set
    loadedResources,         \* per instance: the Set of recorded URLs
    head,                    \* <<instance, url>> -> elements in document.head
    calls,                   \* injectHeadContent calls made so far
    procs,                   \* processStructuredContent calls made so far
    manuscriptEl,            \* manuscriptRef.value.$el exists
    embeddedRuns,            \* per script node of the mounted content: runs
    bodyScripts,             \* init script nodes that are children of body
    initScriptThrew          \* an executeInitScript call threw to its caller

wvars == <<generation,
           lifecycle, htmlString, changes, importPc, onload, onrender, selfRef,
           onloadCalled, lastHtmlString, executeRenderInProgress, manuscriptKey,
           keyWatchOld, renderWatchOld, acts, onloadCalls, onrenderCalls,
           onloadOk, onloadThrew, renderRejected, onrenderThrew, lastOutcome,
           emptySeen, awaitingTypeset, mathState, loaderScripts, typesetDone,
           tooltipOpen, tooltipMath, tooltipClosed, vLastHtmlString,
           vOnloadCalled, vActs, vOnloadCalls, vOnrenderCalls>>

\* The rendered document: the math of the mount and the engine's scripts.
dvars == <<mathState, loaderScripts, typesetDone>>

\* The tooltip preview.
tvars == <<tooltipOpen, tooltipMath, tooltipClosed>>

\* The earlier wrapper, whose executeRender has no in-progress flag, run
\* beside the final one on the same props, refs and imports.
vvars == <<vLastHtmlString, vOnloadCalled, vActs, vOnloadCalls,
           vOnrenderCalls>>

\* document.body as executeInitScript leaves it.
bvars == <<bodyScripts, initScriptThrew>>

pvars == <<procs, manuscriptEl, embeddedRuns, bvars>>

hvars == <<created, apiBase, loadedResources, head, calls, pvars>>

vars == <<wvars, hvars>>

Contents == 0..MaxContent

(***************************************************************************)
(* ManuscriptWrapper.vue: setup state                                      *)
(***************************************************************************)
WrapperInit ==
    /\ generation = 1
    /\ lifecycle = "setup"
    /\ htmlString \in Contents
    /\ changes = 0
    /\ importPc = "none"
    /\ onload = FALSE
    /\ onrender = FALSE
    /\ selfRef = FALSE
    /\ onloadCalled = FALSE
    /\ lastHtmlString = <<>>
    /\ executeRenderInProgress = FALSE
    /\ manuscriptKey = 0
    /\ keyWatchOld = htmlString
    /\ renderWatchOld = <<FALSE, FALSE, htmlString>>
    /\ acts = <<>>
    /\ onloadCalls = 0
    /\ onrenderCalls = 0
    /\ onloadOk = FALSE
    /\ onloadThrew = FALSE
    /\ renderRejected = FALSE
    /\ onrenderThrew = FALSE
    /\ lastOutcome = "none"
    /\ emptySeen = (htmlString = 0)
    /\ awaitingTypeset = FALSE
    /\ vLastHtmlString = <<>>
    /\ vOnloadCalled = FALSE
    /\ vActs = <<>>
    /\ vOnloadCalls = 0
    /\ vOnrenderCalls = 0
    /\ mathState = "raw"
    /\ loaderScripts = 0
    /\ typesetDone = FALSE
    /\ tooltipOpen = FALSE
    /\ tooltipMath = "none"
    /\ tooltipClosed = FALSE

\* Variant whose watcher does not observe the onload ref.
WatchedNow_NoOnload == <<FALSE, selfRef, htmlString>>

\* The values the executeRender watcher observes.
WatchedNow == <<onload, selfRef, htmlString>>

\* Remove activation i from the list of suspended activations.
Drop(s, i) == SubSeq(s, 1, i - 1) \o SubSeq(s, i + 1, Len(s))

\* Replace the position of activation i.
Move(s, i, pc) == [s EXCEPT ![i] = pc]

(***************************************************************************)
(* executeRender, synchronous part (guards, lock, idempotence key)         *)
(***************************************************************************)
\* Variant without the in-progress check.
InProgressGuard_Off == FALSE

\* if (executeRenderInProgress) return;
InProgressGuard == executeRenderInProgress

\* Variant without the check of the refs.
MissingRefs_Off == FALSE

\* if (!selfRef.value || !props.htmlString || !onload.value) return;
MissingRefs == ~selfRef \/ htmlString = 0 \/ ~onload

\* Variant without the idempotence check.
SameHtmlString_Off == FALSE

\* if (props.htmlString === lastHtmlString) return;
SameHtmlString == lastHtmlString = <<htmlString>>

\* Variant that takes the onload() path on every render.
FirstTimeBranch_Always == TRUE

\* if (!onloadCalled.value) ... else if (onrender.value) ...
FirstTimeBranch == ~onloadCalled

\* Which return statement, if any, ends the call.
GuardOutcome ==
    IF InProgressGuard THEN "inProgress"
    ELSE IF MissingRefs THEN "missingRefs"
    ELSE IF SameHtmlString THEN "sameHtmlString"
    ELSE "started"

ExecuteRender ==
    /\ lastOutcome' = GuardOutcome
    /\ IF InProgressGuard \/ MissingRefs \/ SameHtmlString
       THEN UNCHANGED <<executeRenderInProgress, lastHtmlString, acts>>
       ELSE /\ executeRenderInProgress' = TRUE
            /\ lastHtmlString' = <<htmlString>>
            /\ acts' = Append(acts, "nextTick")

(***************************************************************************)
(* Component lifecycle and the parent's input                              *)
(***************************************************************************)
\* Mounting runs the onBeforeMount hook (which starts the first import and
\* suspends) and then sets the template ref of the root element.
MountComponent ==
    /\ lifecycle = "setup"
    /\ lifecycle' = "mounted"
    /\ importPc' = "jquery"
    /\ selfRef' = TRUE
    /\ UNCHANGED <<generation,
                   htmlString, changes, onload, onrender, onloadCalled,
                   lastHtmlString, executeRenderInProgress, manuscriptKey,
                   keyWatchOld, renderWatchOld, acts, onloadCalls,
                   onrenderCalls, onloadOk, onloadThrew, renderRejected>>
    /\ UNCHANGED <<onrenderThrew, lastOutcome, emptySeen, dvars, tvars>>
    /\ UNCHANGED <<awaitingTypeset, vvars>>
    /\ UNCHANGED hvars

\* Unmounting stops the watchers and clears the template ref; suspended
\* activations and the import chain still run to their end.
UnmountComponent ==
    /\ lifecycle = "mounted"
    /\ lifecycle' = "unmounted"
    /\ selfRef' = FALSE
    /\ UNCHANGED <<generation, htmlString, changes, importPc, onload, onrender,
                   onloadCalled, lastHtmlString, executeRenderInProgress,
                   manuscriptKey, keyWatchOld, renderWatchOld, acts,
                   onloadCalls, onrenderCalls, onloadOk, onloadThrew,
                   renderRejected>>
    /\ UNCHANGED <<onrenderThrew, lastOutcome, emptySeen, dvars, tvars>>
    /\ UNCHANGED <<awaitingTypeset, vvars>>
    /\ UNCHANGED hvars

\* The parent passes a new htmlString.
SetHtmlString ==
    /\ lifecycle = "mounted"
    /\ changes < MaxChanges
    /\ \E c \in Contents \ {htmlString} : htmlString' = c
    /\ changes' = changes + 1
    /\ UNCHANGED <<generation, lifecycle, importPc, onload, onrender, selfRef,
                   onloadCalled, lastHtmlString, executeRenderInProgress,
                   manuscriptKey, keyWatchOld, renderWatchOld, acts,
                   onloadCalls, onrenderCalls, onloadOk, onloadThrew,
                   renderRejected>>
    /\ emptySeen' = (emptySeen \/ htmlString' = 0)
    /\ UNCHANGED <<onrenderThrew, lastOutcome, dvars, tvars>>
    /\ UNCHANGED <<awaitingTypeset, vvars>>
    /\ UNCHANGED hvars

(***************************************************************************)
(* onBeforeMount: three imports one after another                          *)
(***************************************************************************)
ImportPending == importPc \in {"jquery", "tooltipster", "onloadjs"}

\* Variant that imports the three files again after the third one.
NextImport_Again ==
    CASE importPc = "jquery" -> "tooltipster"
      [] importPc = "tooltipster" -> "onloadjs"
      [] importPc = "onloadjs" -> "jquery"

\* Variant that goes from jquery straight to onload.js.
NextImport_SkipTooltipster ==
    CASE importPc = "jquery" -> "onloadjs"
      [] importPc = "tooltipster" -> "onloadjs"
      [] importPc = "onloadjs" -> "done"

NextImport ==
    CASE importPc = "jquery" -> "tooltipster"
      [] importPc = "tooltipster" -> "onloadjs"
      [] importPc = "onloadjs" -> "done"

\* The pending import resolves; after the third one the module's onload and
\* onrender exports are stored.
ImportResolved ==
    /\ ImportPending
    /\ importPc' = NextImport
    /\ onload' = IF importPc = "onloadjs" THEN TRUE ELSE onload
    /\ onrender' = IF importPc = "onloadjs" THEN TRUE ELSE onrender
    /\ UNCHANGED <<generation,
                   lifecycle, htmlString, changes, selfRef, onloadCalled,
                   lastHtmlString, executeRenderInProgress, manuscriptKey,
                   keyWatchOld, renderWatchOld, acts, onloadCalls,
                   onrenderCalls, onloadOk, onloadThrew, renderRejected>>
    /\ UNCHANGED <<onrenderThrew, lastOutcome, emptySeen, dvars, tvars>>
    /\ UNCHANGED <<awaitingTypeset, vvars>>
    /\ UNCHANGED hvars

\* The pending import rejects: the catch block logs and the hook ends.
ImportRejected ==
    /\ ImportPending
    /\ importPc' = "failed"
    /\ UNCHANGED <<generation,
                   lifecycle, htmlString, changes, onload, onrender, selfRef,
                   onloadCalled, lastHtmlString, executeRenderInProgress,
                   manuscriptKey, keyWatchOld, renderWatchOld, acts,
                   onloadCalls, onrenderCalls, onloadOk, onloadThrew,
                   renderRejected>>
    /\ UNCHANGED <<onrenderThrew, lastOutcome, emptySeen, dvars, tvars>>
    /\ UNCHANGED <<awaitingTypeset, vvars>>
    /\ UNCHANGED hvars

(***************************************************************************)
(* A new instance in place of a discarded one                              *)
(***************************************************************************)
\* Variant whose render state lives in the module, shared by all instances.
InstanceState_Shared(old, fresh) == old

\* The render state is declared inside <script setup>: each instance gets
\* its own, initialized by the declarations.
InstanceState(old, fresh) == fresh

\* The parent discards the unmounted wrapper and creates a new one for the
\* content it holds: <script setup> runs again.  What the discarded
\* instance still had running acts on that instance's own state, so the new
\* instance is taken up once the old one has nothing left to run.
RecreateWrapper ==
    /\ lifecycle = "unmounted"
    /\ acts = <<>>
    /\ ~ImportPending
    /\ generation < MaxWrappers
    /\ generation' = generation + 1
    /\ lifecycle' = "setup"
    /\ importPc' = "none"
    /\ onload' = InstanceState(onload, FALSE)
    /\ onrender' = InstanceState(onrender, FALSE)
    /\ selfRef' = FALSE
    /\ onloadCalled' = InstanceState(onloadCalled, FALSE)
    /\ lastHtmlString' = InstanceState(lastHtmlString, <<>>)
    /\ executeRenderInProgress' = InstanceState(executeRenderInProgress, FALSE)
    /\ manuscriptKey' = InstanceState(manuscriptKey, 0)
    /\ keyWatchOld' = htmlString
    /\ renderWatchOld' = <<FALSE, FALSE, htmlString>>
    /\ onloadCalls' = 0
    /\ onrenderCalls' = 0
    /\ onloadOk' = FALSE
    /\ onloadThrew' = FALSE
    /\ renderRejected' = FALSE
    /\ onrenderThrew' = FALSE
    /\ lastOutcome' = "none"
    /\ emptySeen' = (htmlString = 0)
    /\ awaitingTypeset' = FALSE
    /\ UNCHANGED vvars
    /\ mathState' = "raw"
    /\ typesetDone' = FALSE
    /\ UNCHANGED <<htmlString, changes, acts, loaderScripts, tvars>>
    /\ UNCHANGED hvars

(***************************************************************************)
(* The two watchers, run in one scheduler flush in creation order          *)
(***************************************************************************)
\* watch(() => props.htmlString, () => { manuscriptKey.value++ })
\* Variant whose key watcher leaves manuscriptKey alone.
KeyWatcher_Off ==
    /\ manuscriptKey' = manuscriptKey
    /\ keyWatchOld' = htmlString

KeyWatcher ==
    /\ manuscriptKey' = IF keyWatchOld # htmlString THEN manuscriptKey + 1
                        ELSE manuscriptKey
    /\ keyWatchOld' = htmlString

\* watch([onload, () => selfRef.value, () => props.htmlString], executeRender)
RenderWatcher ==
    /\ renderWatchOld' = WatchedNow
    /\ IF renderWatchOld # WatchedNow
       THEN ExecuteRender
       ELSE UNCHANGED <<executeRenderInProgress, lastHtmlString, acts,
                        lastOutcome>>

\* <Manuscript :key="manuscriptKey" :html-string="htmlString" />: a new key
\* replaces the child by a new one rendering the new markup, math untypeset.
RecreateManuscript ==
    mathState' = IF manuscriptKey' # manuscriptKey THEN "raw" ELSE mathState

\* The key watcher re-creates the Manuscript for non-empty content while the
\* entry point is loaded and no activation is between its guards and the end
\* of its entry point.
RecreatedWhileIdle ==
    /\ keyWatchOld # htmlString
    /\ htmlString # 0
    /\ onload
    /\ \A i \in 1..Len(acts) : acts[i] = "microtask"

FlushWatchersStep ==
    /\ lifecycle = "mounted"
    /\ keyWatchOld # htmlString \/ renderWatchOld # WatchedNow
    /\ KeyWatcher
    /\ RenderWatcher
    /\ RecreateManuscript
    /\ awaitingTypeset' = (awaitingTypeset \/ RecreatedWhileIdle)
    /\ UNCHANGED <<onrenderThrew, emptySeen, loaderScripts, typesetDone,
                   tvars>>
    /\ UNCHANGED <<generation,
                   lifecycle, htmlString, changes, importPc, onload, onrender,
                   selfRef, onloadCalled, onloadCalls, onrenderCalls, onloadOk,
                   onloadThrew, renderRejected>>
    /\ UNCHANGED hvars

\* Both watchers run in one flush.
FlushWatchers == FlushWatchersStep /\ UNCHANGED vvars

(***************************************************************************)
(* executeRender, after the nextTick wait                                  *)
(***************************************************************************)
\* Line 75 reads selfRef.value.querySelectorAll outside the try block: with
\* the ref cleared the activation ends there with a TypeError.  Otherwise the
\* try block calls onload() the first time and onrender() afterwards.
NextTickStep(i) ==
        /\ acts[i] = "nextTick"
        /\ IF ~selfRef
           THEN /\ acts' = Drop(acts, i)
                /\ renderRejected' = TRUE
                /\ UNCHANGED <<executeRenderInProgress, onloadCalls,
                               onrenderCalls, awaitingTypeset>>
           ELSE IF FirstTimeBranch
           THEN /\ acts' = Move(acts, i, "onload")
                /\ onloadCalls' = onloadCalls + 1
                /\ awaitingTypeset' = FALSE
                /\ UNCHANGED <<executeRenderInProgress, onrenderCalls,
                               renderRejected>>
           ELSE IF onrender
           THEN /\ acts' = Move(acts, i, "onrender")
                /\ onrenderCalls' = onrenderCalls + 1
                /\ awaitingTypeset' = FALSE
                /\ UNCHANGED <<executeRenderInProgress, onloadCalls,
                               renderRejected>>
           ELSE /\ acts' = Move(acts, i, "microtask")
                /\ executeRenderInProgress' = FALSE
                /\ UNCHANGED <<onloadCalls, onrenderCalls, renderRejected,
                               awaitingTypeset>>
        /\ UNCHANGED <<generation,
                       lifecycle, htmlString, changes, importPc, onload,
                       onrender, selfRef, onloadCalled, lastHtmlString,
                       manuscriptKey, keyWatchOld, renderWatchOld, onloadOk,
                       onloadThrew>>
        /\ UNCHANGED <<onrenderThrew, lastOutcome, emptySeen, dvars, tvars>>
        /\ UNCHANGED hvars

NextTickResolved ==
    \E i \in 1..Len(acts) : NextTickStep(i) /\ UNCHANGED vvars

(***************************************************************************)
(* The typesetting engine behind onload() and onrender()                   *)
(*                                                                         *)
(* onload() creates an engine instance, whose loader script it adds to the *)
(* document, and typesets the math of the root; onrender() typesets the    *)
(* math of the root with the engine that exists.  Typesetting is           *)
(* idempotent with one engine instance; with a second instance in the      *)
(* document the output is nested or duplicated.  A call that throws has    *)
(* left the document as it was.                                            *)
(***************************************************************************)
Typeset(engines) == IF engines >= 2 THEN "nested" ELSE "typeset"

\* The pending entry point does its work on the document, some time between
\* its call and the settling of its promise.
EngineRuns ==
    \E i \in 1..Len(acts) :
        /\ acts[i] \in {"onload", "onrender"}
        /\ ~typesetDone
        /\ typesetDone' = TRUE
        /\ loaderScripts' = IF acts[i] = "onload" THEN loaderScripts + 1
                            ELSE loaderScripts
        /\ mathState' = IF mathState = "nested" THEN "nested"
                        ELSE Typeset(loaderScripts')
        /\ UNCHANGED <<generation,
                       lifecycle, htmlString, changes, importPc, onload,
                       onrender, selfRef, onloadCalled, lastHtmlString,
                       executeRenderInProgress, manuscriptKey, keyWatchOld,
                       renderWatchOld, acts, onloadCalls, onrenderCalls,
                       onloadOk, onloadThrew, renderRejected, onrenderThrew,
                       lastOutcome, emptySeen, tvars>>
        /\ UNCHANGED <<awaitingTypeset, vvars>>
        /\ UNCHANGED hvars

(***************************************************************************)
(* The tooltip preview of a cross-reference                                *)
(*                                                                         *)
(* renderPreview clones the referenced element into a detached fragment    *)
(* and typesets that fragment only; closing the tooltip removes the        *)
(* fragment with its typeset output.                                       *)
(***************************************************************************)
\* Variant that asks the engine to typeset the whole document.
PreviewTypeset_WholeDocument(m) == IF m = "typeset" THEN "nested" ELSE m

\* The math of the mount after the preview's typesetting pass, which is
\* scoped to the fragment.
PreviewTypeset(m) == m

\* Variant that leaves the fragment in the document.
Disposed_Kept(fragment) == fragment

\* The fragment after the tooltip has closed.
Disposed(fragment) == "none"

\* The reader hovers a cross-reference of the rendered manuscript.
ShowTooltip ==
    /\ lifecycle = "mounted"
    /\ onloadCalled
    /\ htmlString # 0
    /\ ~tooltipOpen
    /\ tooltipOpen' = TRUE
    /\ tooltipMath' = "typeset"
    /\ mathState' = PreviewTypeset(mathState)
    /\ UNCHANGED <<generation,
                   lifecycle, htmlString, changes, importPc, onload, onrender,
                   selfRef, onloadCalled, lastHtmlString,
                   executeRenderInProgress, manuscriptKey, keyWatchOld,
                   renderWatchOld, acts, onloadCalls, onrenderCalls, onloadOk,
                   onloadThrew, renderRejected, onrenderThrew, lastOutcome,
                   emptySeen, loaderScripts, typesetDone, tooltipClosed>>
    /\ UNCHANGED <<awaitingTypeset, vvars>>
    /\ UNCHANGED hvars

\* The pointer leaves the cross-reference and the tooltip closes.
CloseTooltip ==
    /\ tooltipOpen
    /\ tooltipOpen' = FALSE
    /\ tooltipMath' = Disposed(tooltipMath)
    /\ tooltipClosed' = TRUE
    /\ UNCHANGED <<generation,
                   lifecycle, htmlString, changes, importPc, onload, onrender,
                   selfRef, onloadCalled, lastHtmlString,
                   executeRenderInProgress, manuscriptKey, keyWatchOld,
                   renderWatchOld, acts, onloadCalls, onrenderCalls, onloadOk,
                   onloadThrew, renderRejected, onrenderThrew, lastOutcome,
                   emptySeen, dvars>>
    /\ UNCHANGED <<awaitingTypeset, vvars>>
    /\ UNCHANGED hvars

\* Variant that marks the wrapper initialized whatever onload() did.
OnloadCompletes_Always(ok) == TRUE

\* onloadCalled.value = true is reached when onload() fulfilled and the read
\* of selfRef.value before it (line 83, inside the try) did not throw.
OnloadCompletes(ok) == ok /\ selfRef

\* Variant whose catch block resets the flag of the first initialization.
InitializedAfter_ResetInCatch(entry, ok) ==
    IF ~ok THEN FALSE
    ELSE IF entry = "onload" /\ OnloadCompletes(ok) THEN TRUE
    ELSE onloadCalled

\* onloadCalled.value once the try block was left: only the onload() branch
\* assigns it (line 85); the onrender() branch, catch and finally do not.
InitializedAfter(entry, ok) ==
    IF entry = "onload" /\ OnloadCompletes(ok) THEN TRUE ELSE onloadCalled

\* The awaited entry point settles (ok: fulfilled, ~ok: threw or rejected).
\* catch logs; finally clears the lock; the reads of selfRef.value after the
\* finally block (line 102) reject the activation when the ref is cleared.
EntrySettledStep(i, ok) ==
        /\ acts[i] \in {"onload", "onrender"}
        /\ ok = typesetDone
        /\ typesetDone' = FALSE
        /\ onrenderThrew' = IF acts[i] = "onrender" /\ ~ok THEN TRUE
                            ELSE onrenderThrew
        /\ UNCHANGED <<lastOutcome, emptySeen, mathState, loaderScripts,
                       tvars>>
        /\ onloadCalled' = InitializedAfter(acts[i], ok)
        /\ onloadOk' = IF acts[i] = "onload" /\ ok THEN TRUE ELSE onloadOk
        /\ onloadThrew' = IF acts[i] = "onload" /\ ~ok THEN TRUE
                          ELSE onloadThrew
        /\ executeRenderInProgress' = FALSE
        /\ IF selfRef
           THEN /\ acts' = Move(acts, i, "microtask")
                /\ UNCHANGED renderRejected
           ELSE /\ acts' = Drop(acts, i)
                /\ renderRejected' = TRUE
        /\ UNCHANGED <<generation,
                       lifecycle, htmlString, changes, importPc, onload,
                       onrender, selfRef, lastHtmlString, manuscriptKey,
                       keyWatchOld, renderWatchOld, onloadCalls,
                       onrenderCalls>>
        /\ UNCHANGED awaitingTypeset
        /\ UNCHANGED hvars

EntrySettled ==
    \E i \in 1..Len(acts), ok \in BOOLEAN :
        EntrySettledStep(i, ok) /\ UNCHANGED vvars

\* await Promise.resolve() resumes; the remaining lines only read the DOM.
MicrotaskResolved ==
    \E i \in 1..Len(acts) :
        /\ acts[i] = "microtask"
        /\ acts' = Drop(acts, i)
        /\ renderRejected' = IF selfRef THEN renderRejected ELSE TRUE
        /\ UNCHANGED <<generation,
                       lifecycle, htmlString, changes, importPc, onload,
                       onrender, selfRef, onloadCalled, lastHtmlString,
                       executeRenderInProgress, manuscriptKey, keyWatchOld,
                       renderWatchOld, onloadCalls, onrenderCalls, onloadOk,
                       onloadThrew>>
        /\ UNCHANGED <<onrenderThrew, lastOutcome, emptySeen, dvars, tvars>>
        /\ UNCHANGED <<awaitingTypeset, vvars>>
        /\ UNCHANGED hvars

(***************************************************************************)
(* The earlier ManuscriptWrapper: executeRender without the in-progress    *)
(* flag, run beside the final one                                          *)
(*                                                                         *)
(* Both wrappers get the same props, template ref and imports, their       *)
(* watchers fire in the same flush, their nextTick waits end together and  *)
(* an entry point called by both settles the same way for both.            *)
(***************************************************************************)
\* if (!selfRef.value || !props.htmlString || !onload.value) return;
VariantMissingRefs == ~selfRef \/ htmlString = 0 \/ ~onload

\* if (props.htmlString === lastHtmlString) return;
VariantSameHtmlString == vLastHtmlString = <<htmlString>>

\* The synchronous part: two guards, then lastHtmlString is recorded and the
\* activation waits for nextTick.
VariantExecuteRender ==
    /\ IF VariantMissingRefs \/ VariantSameHtmlString
       THEN UNCHANGED <<vLastHtmlString, vActs>>
       ELSE /\ vLastHtmlString' = <<htmlString>>
            /\ vActs' = Append(vActs, "nextTick")
    /\ UNCHANGED <<vOnloadCalled, vOnloadCalls, vOnrenderCalls>>

\* watch([onload, () => selfRef.value, () => props.htmlString], executeRender)
VariantRenderWatcher ==
    IF renderWatchOld # WatchedNow THEN VariantExecuteRender
    ELSE UNCHANGED vvars

\* After await nextTick(): onload() the first time, onrender() afterwards;
\* selfRef.value is only passed on, never dereferenced.
VariantNextTick ==
    IF \E j \in 1..Len(vActs) : vActs[j] = "nextTick"
    THEN LET j == CHOOSE k \in 1..Len(vActs) : vActs[k] = "nextTick"
         IN  /\ IF ~vOnloadCalled
                THEN /\ vActs' = [vActs EXCEPT ![j] = "onload"]
                     /\ vOnloadCalls' = vOnloadCalls + 1
                     /\ UNCHANGED vOnrenderCalls
                ELSE IF onrender
                THEN /\ vActs' = [vActs EXCEPT ![j] = "onrender"]
                     /\ vOnrenderCalls' = vOnrenderCalls + 1
                     /\ UNCHANGED vOnloadCalls
                ELSE /\ vActs' = Drop(vActs, j)
                     /\ UNCHANGED <<vOnloadCalls, vOnrenderCalls>>
             /\ UNCHANGED <<vLastHtmlString, vOnloadCalled>>
    ELSE UNCHANGED vvars

\* The awaited entry point settles: onloadCalled.value = true follows a
\* fulfilled onload() at once; the catch block only logs.
VariantSettle(ok) ==
    IF \E j \in 1..Len(vActs) : vActs[j] \in {"onload", "onrender"}
    THEN LET j == CHOOSE k \in 1..Len(vActs) :
                      vActs[k] \in {"onload", "onrender"}
         IN  /\ vOnloadCalled' = IF vActs[j] = "onload" /\ ok THEN TRUE
                                 ELSE vOnloadCalled
             /\ vActs' = Drop(vActs, j)
             /\ UNCHANGED <<vLastHtmlString, vOnloadCalls, vOnrenderCalls>>
    ELSE UNCHANGED vvars

\* No render of either wrapper is in flight.
NoRenderInFlight ==
    /\ \A i \in 1..Len(acts) : acts[i] = "microtask"
    /\ vActs = <<>>

\* The watchers of both wrappers fire, at a moment when no render is in
\* flight.
BothFlushWatchers ==
    /\ NoRenderInFlight
    /\ FlushWatchersStep
    /\ VariantRenderWatcher

BothNextTickResolved ==
    \E i \in 1..Len(acts) : NextTickStep(i) /\ VariantNextTick

BothEntrySettled ==
    \E i \in 1..Len(acts), ok \in BOOLEAN :
        EntrySettledStep(i, ok) /\ VariantSettle(ok)

\* An entry point that only the earlier wrapper called settles.
VariantEntrySettled ==
    /\ \A i \in 1..Len(acts) : acts[i] \notin {"onload", "onrender"}
    /\ \E j \in 1..Len(vActs) : vActs[j] \in {"onload", "onrender"}
    /\ \E ok \in BOOLEAN : VariantSettle(ok)
    /\ UNCHANGED <<generation, lifecycle, htmlString, changes, importPc,
                   onload, onrender, selfRef, onloadCalled, lastHtmlString,
                   executeRenderInProgress, manuscriptKey, keyWatchOld,
                   renderWatchOld, acts, onloadCalls, onrenderCalls,
                   onloadOk, onloadThrew, renderRejected, onrenderThrew,
                   lastOutcome, emptySeen, awaitingTypeset, dvars, tvars>>
    /\ UNCHANGED hvars

(***************************************************************************)
(* useHeadInjection: the head injection composable                         *)
(*                                                                         *)
(* A URL is a sequence of path segments: <<"static", "a">> is the relative *)
(* URL /static/a, <<"cdn", "b">> an absolute URL elsewhere, and            *)
(* <<"api", "static", "a">> is /static/a under the API base URL.  A head   *)
(* payload is the sequence, in document order, of its stylesheet links and *)
(* external scripts.                                                       *)
(***************************************************************************)
Instances == 1..MaxInstances

\* The URLs a payload declares.
RawUrls == {<<"static", "a">>, <<"cdn", "b">>}

\* Every URL an inserted element can carry.
FinalUrls == RawUrls \cup {<<"api">> \o u : u \in RawUrls}

Descriptors == [kind : {"link", "script"}, url : RawUrls]

Payloads == UNION {[1..n -> Descriptors] : n \in 0..MaxPayloadLen}

\* The script nodes inside the mounted manuscript content: one with code,
\* one whose text is empty or blank.
EmbeddedScripts == {"code", "blank"}

HeadInit ==
    /\ created = {}
    /\ apiBase = [i \in Instances |-> FALSE]
    /\ loadedResources = [i \in Instances |-> {}]
    /\ head = [e \in Instances \X FinalUrls |-> 0]
    /\ calls = <<>>
    /\ procs = <<>>
    /\ manuscriptEl = FALSE
    /\ embeddedRuns = [s \in EmbeddedScripts |-> 0]
    /\ bodyScripts = 0
    /\ initScriptThrew = FALSE

\* href.startsWith("/static/")
StartsWithStatic(url) == Len(url) >= 1 /\ url[1] = "static"

\* Variant that uses every declared URL as it is.
Rewrite_Never(url, base) == url

\* if (href.startsWith("/static/") && apiBaseUrl) href = apiBaseUrl + href;
Rewrite(url, base) ==
    IF StartsWithStatic(url) /\ base THEN <<"api">> \o url ELSE url

\* if (href && !loadedResources.has(href)): the declared URL is looked up.
AlreadyLoaded(loaded, url) == url \in loaded

\* loadedResources.add(href): href was reassigned by the rewriting above.
RecordedUrl(url, base) == Rewrite(url, base)

\* The forEach loops over the declarations ds: st.loaded is the Set,
\* st.inserted the URLs of the elements appended to document.head.
RECURSIVE ProcessDeclarations(_, _, _)
ProcessDeclarations(st, ds, base) ==
    IF ds = <<>> THEN st
    ELSE LET url == Head(ds).url
             nxt == IF AlreadyLoaded(st.loaded, url) THEN st
                    ELSE [loaded |-> st.loaded \cup {RecordedUrl(url, base)},
                          inserted |-> Append(st.inserted, Rewrite(url, base))]
         IN ProcessDeclarations(nxt, Tail(ds), base)

IsLink(d) == d.kind = "link"
IsScript(d) == d.kind = "script"

\* Number of occurrences of url in the sequence s.
Occurrences(s, url) == Cardinality({k \in 1..Len(s) : s[k] = url})

\* export function useHeadInjection(api = null): a new instance, a new Set.
NewInstance(i) ==
    \E base \in BOOLEAN :
        /\ created' = created \cup {i}
        /\ apiBase' = [apiBase EXCEPT ![i] = base]
        /\ loadedResources' = [loadedResources EXCEPT ![i] = {}]
        /\ UNCHANGED <<head, calls>>
        /\ UNCHANGED pvars
        /\ UNCHANGED wvars

\* The first useHeadInjection() call of the page.
UseHeadInjection == created = {} /\ NewInstance(1)

\* A later useHeadInjection() call on the same page.
UseHeadInjectionAgain ==
    /\ created # {}
    /\ Cardinality(created) < MaxInstances
    /\ NewInstance(Cardinality(created) + 1)

\* Promise.all over no promises fulfils at once, and the function resolves
\* itself when scriptPromises.length === 0.
ResolvedAtOnce(scripts) == Len(scripts) = 0

\* The body of injectHeadContent(headContent) on instance i: stylesheets
\* first, then scripts; the call stays pending on the load of the script
\* elements it inserted.
Inject(i, payload) ==
    LET links == ProcessDeclarations(
                     [loaded |-> loadedResources[i], inserted |-> <<>>],
                     SelectSeq(payload, IsLink), apiBase[i])
        scripts == ProcessDeclarations(
                     [loaded |-> links.loaded, inserted |-> <<>>],
                     SelectSeq(payload, IsScript), apiBase[i])
        added == links.inserted \o scripts.inserted
    IN /\ loadedResources' = [loadedResources EXCEPT ![i] = scripts.loaded]
       /\ head' = [e \in Instances \X FinalUrls |->
                     IF e[1] = i THEN head[e] + Occurrences(added, e[2])
                     ELSE head[e]]
       /\ calls' = Append(calls,
                     [inst |-> i,
                      pending |-> scripts.inserted,
                      failed |-> FALSE,
                      resolved |-> ResolvedAtOnce(scripts.inserted)])

\* A direct injectHeadContent(headContent) call.
InjectHeadContent ==
    \E i \in created, payload \in Payloads :
        /\ Len(calls) < MaxCalls
        /\ Inject(i, payload)
        /\ UNCHANGED <<created, apiBase>>
        /\ UNCHANGED pvars
        /\ UNCHANGED wvars

\* Promise.all(scriptPromises).then(resolve): fulfils when no script of the
\* call is left loading and none has failed.
AllLoaded(call, left) == left = <<>> /\ ~call.failed

\* newScript.onload fires for a script element of call c.
ScriptLoaded ==
    \E c \in 1..Len(calls) :
        \E k \in 1..Len(calls[c].pending) :
            LET left == Drop(calls[c].pending, k)
            IN /\ calls' = [calls EXCEPT
                              ![c].pending = left,
                              ![c].resolved = @ \/ AllLoaded(calls[c], left)]
               /\ UNCHANGED <<created, apiBase, loadedResources, head>>
               /\ UNCHANGED pvars
               /\ UNCHANGED wvars

\* Promise.all rejects on the first rejection and nothing catches it.
ResolvesOnFailure_NoCatch(call, left) == FALSE

\* Promise.all rejects on the first rejection, and .catch(...) resolves.
ResolvesOnFailure(call, left) == TRUE

\* newScript.onerror fires for a script element of call c.
ScriptFailed ==
    \E c \in 1..Len(calls) :
        \E k \in 1..Len(calls[c].pending) :
            LET left == Drop(calls[c].pending, k)
            IN /\ calls' = [calls EXCEPT
                              ![c].pending = left,
                              ![c].failed = TRUE,
                              ![c].resolved =
                                  @ \/ ResolvesOnFailure(calls[c], left)]
               /\ UNCHANGED <<created, apiBase, loadedResources, head>>
               /\ UNCHANGED pvars
               /\ UNCHANGED wvars

(***************************************************************************)
(* useHeadInjection: processStructuredContent and the script execution     *)
(***************************************************************************)
\* processStructuredContent(structured, manuscriptRef) up to its first await:
\* a non-empty structured.head is injected and awaited.  init: the payload
\* has an init_script; ref: a manuscriptRef was passed.
ProcessStructuredContentWith(heads) ==
    \E i \in created, payload \in heads, init \in BOOLEAN, ref \in BOOLEAN :
        /\ Len(procs) < MaxCalls
        /\ Len(calls) < MaxCalls
        /\ IF payload # <<>>
           THEN Inject(i, payload)
           ELSE UNCHANGED <<loadedResources, head, calls>>
        /\ procs' = Append(procs,
                       [inst |-> i,
                        call |-> IF payload # <<>> THEN Len(calls) + 1 ELSE 0,
                        init |-> init,
                        ref |-> ref,
                        pc |-> "inject",
                        initRuns |-> 0,
                        initRaised |-> FALSE,
                        embeddedCalls |-> 0])
        /\ UNCHANGED <<created, apiBase, manuscriptEl, embeddedRuns>>
        /\ UNCHANGED bvars
        /\ UNCHANGED wvars

ProcessStructuredContent == ProcessStructuredContentWith(Payloads)

\* A payload without head: if (structured.head) is skipped.
ProcessWithoutHead == ProcessStructuredContentWith({<<>>})

\* await injectHeadContent(structured.head) has resolved (or there was no
\* head): without an init_script the function ends here.
InjectAwaited ==
    \E p \in 1..Len(procs) :
        /\ procs[p].pc = "inject"
        /\ IF procs[p].call = 0 THEN TRUE
           ELSE calls[procs[p].call].resolved
        /\ procs' = [procs EXCEPT
                       ![p].pc = IF procs[p].init THEN "tick1" ELSE "done"]
        /\ UNCHANGED <<created, apiBase, loadedResources, head, calls,
                       manuscriptEl, embeddedRuns>>
        /\ UNCHANGED bvars
        /\ UNCHANGED wvars

\* What one executeInitScript call can meet: the script runs to its end; the
\* script throws (the error is reported by the browser, appendChild returns
\* normally); creating or filling the node throws before it is attached; the
\* script detaches its own node, so that removeChild throws.
InitOutcomes == {"ran", "scriptError", "blocked", "selfRemoved"}

\* document.body.appendChild(scriptElement) was reached and returned.
Attached(o) == o # "blocked"

\* A statement of the try block threw.
Raised(o) == o \in {"blocked", "selfRemoved"}

\* catch (error) { console.error(...) }: nothing leaves the function.
Propagates(raised) == FALSE

\* Variant that leaves the appended node in document.body.
BodyAfter_NoRemove(n, o) ==
    LET appended == IF Attached(o) THEN n + 1 ELSE n
    IN  IF o = "selfRemoved" THEN appended - 1 ELSE appended

\* The init script nodes in document.body after a call that found n.
BodyAfter(n, o) ==
    LET appended == IF Attached(o) THEN n + 1 ELSE n
        afterRun == IF o = "selfRemoved" THEN appended - 1 ELSE appended
    IN  IF Attached(o) /\ ~Raised(o) THEN afterRun - 1 ELSE afterRun

\* The first await nextTick() resolves: executeInitScript(init_script)
\* appends the script node to document.body (which runs it) and removes it.
InitScriptExecuted ==
    \E p \in 1..Len(procs), o \in InitOutcomes :
        /\ procs[p].pc = "tick1"
        /\ procs' = [procs EXCEPT ![p].pc = "tick2",
                                  ![p].initRuns = @ + 1,
                                  ![p].initRaised = Raised(o)]
        /\ bodyScripts' = BodyAfter(bodyScripts, o)
        /\ initScriptThrew' = (initScriptThrew \/ Propagates(Raised(o)))
        /\ UNCHANGED <<created, apiBase, loadedResources, head, calls,
                       manuscriptEl, embeddedRuns>>
        /\ UNCHANGED wvars

\* if (script.textContent && script.textContent.trim())
HasCode(s) == s = "code"

\* executeEmbeddedScripts(manuscriptRef): every script node with code found
\* in the manuscript element is replaced by a fresh copy, which runs it; the
\* copy stays in the content in place of the node it replaced.
ExecuteEmbeddedScripts ==
    IF manuscriptEl
    THEN embeddedRuns' = [s \in EmbeddedScripts |->
                            IF HasCode(s) THEN embeddedRuns[s] + 1
                            ELSE embeddedRuns[s]]
    ELSE UNCHANGED embeddedRuns

\* The second await nextTick() resolves.
EmbeddedScriptsStep ==
    \E p \in 1..Len(procs) :
        /\ procs[p].pc = "tick2"
        /\ procs' = [procs EXCEPT
                       ![p].pc = "done",
                       ![p].embeddedCalls = IF procs[p].ref THEN @ + 1 ELSE @]
        /\ IF procs[p].ref
           THEN ExecuteEmbeddedScripts
           ELSE UNCHANGED embeddedRuns
        /\ UNCHANGED <<created, apiBase, loadedResources, head, calls,
                       manuscriptEl>>
        /\ UNCHANGED bvars
        /\ UNCHANGED wvars

\* New manuscript content is mounted: its script nodes have not run.
MountContent ==
    /\ ~manuscriptEl \/ \E s \in EmbeddedScripts : embeddedRuns[s] > 0
    /\ manuscriptEl' = TRUE
    /\ embeddedRuns' = [s \in EmbeddedScripts |-> 0]
    /\ UNCHANGED <<created, apiBase, loadedResources, head, calls, procs>>
    /\ UNCHANGED bvars
    /\ UNCHANGED wvars

(***************************************************************************)
(* Specification of one ManuscriptWrapper instance                         *)
(***************************************************************************)
Init == WrapperInit /\ HeadInit

Next ==
    \/ MountComponent
    \/ UnmountComponent
    \/ SetHtmlString
    \/ ImportResolved
    \/ ImportRejected
    \/ FlushWatchers
    \/ NextTickResolved
    \/ EngineRuns
    \/ EntrySettled
    \/ MicrotaskResolved

Spec == Init /\ [][Next]_vars

\* The scheduler runs queued watcher jobs and promise continuations, and the
\* entry points and imports settle (an in-flight render runs to completion or
\* failure).  The parent's changes and the unmount are not forced.
Fairness ==
    /\ WF_vars(FlushWatchers)
    /\ WF_vars(NextTickResolved)
    /\ WF_vars(EntrySettled)
    /\ WF_vars(MicrotaskResolved)
    /\ WF_vars(ImportResolved \/ ImportRejected)

FairSpec == Spec /\ Fairness

\* The wrapper discarded and created again by its parent.
RemountNext ==
    \/ Next
    \/ RecreateWrapper

RemountSpec == Init /\ [][RemountNext]_vars

\* The wrapper with a reader hovering cross-references.
TooltipNext ==
    \/ Next
    \/ ShowTooltip
    \/ CloseTooltip

TooltipSpec == Init /\ [][TooltipNext]_vars

\* The two wrappers side by side, with watcher firings only while no render
\* is in flight.
EquivNext ==
    \/ MountComponent
    \/ UnmountComponent
    \/ SetHtmlString
    \/ ImportResolved
    \/ ImportRejected
    \/ BothFlushWatchers
    \/ BothNextTickResolved
    \/ EngineRuns
    \/ BothEntrySettled
    \/ VariantEntrySettled
    \/ MicrotaskResolved

EquivSpec == Init /\ [][EquivNext]_vars

(***************************************************************************)
(* Specification of one head injection instance                            *)
(***************************************************************************)
HeadNext ==
    \/ UseHeadInjection
    \/ InjectHeadContent
    \/ ScriptLoaded
    \/ ScriptFailed

\* The page before any composable is used; the wrapper is left in its setup
\* state with an empty document.
HeadSpecInit == HeadInit /\ WrapperInit /\ htmlString = 0

HeadSpec == HeadSpecInit /\ [][HeadNext]_vars

(***************************************************************************)
(* Specification of a page with several head injection instances          *)
(***************************************************************************)
PageNext ==
    \/ HeadNext
    \/ UseHeadInjectionAgain

PageSpec == HeadSpecInit /\ [][PageNext]_vars

(***************************************************************************)
(* Specification of processStructuredContent on one instance               *)
(***************************************************************************)
ProcessNext ==
    \/ UseHeadInjection
    \/ ProcessStructuredContent
    \/ ScriptLoaded
    \/ ScriptFailed
    \/ InjectAwaited
    \/ InitScriptExecuted
    \/ EmbeddedScriptsStep
    \/ MountContent

ProcessSpec == HeadSpecInit /\ [][ProcessNext]_vars

\* Script elements fire load or error, and promise continuations run.
ProcessFairness ==
    /\ WF_vars(ScriptLoaded \/ ScriptFailed)
    /\ WF_vars(InjectAwaited)
    /\ WF_vars(InitScriptExecuted)
    /\ WF_vars(EmbeddedScriptsStep)

FairProcessSpec == ProcessSpec /\ ProcessFairness

\* processStructuredContent for payloads that have no head.
InitScriptNext ==
    \/ UseHeadInjection
    \/ ProcessWithoutHead
    \/ InjectAwaited
    \/ InitScriptExecuted
    \/ EmbeddedScriptsStep
    \/ MountContent

InitScriptSpec == HeadSpecInit /\ [][InitScriptNext]_vars

(***************************************************************************)
(* Properties of the render lifecycle                                      *)
(***************************************************************************)
\* Activations past their guards and not yet past the finally block.
InFlight ==
    {i \in 1..Len(acts) : acts[i] \in {"nextTick", "onload", "onrender"}}

\* The three things a render needs are available.
Ready == selfRef /\ htmlString # 0 /\ onload

\* The watcher ran executeRender in this step.
WatcherFired == renderWatchOld' # renderWatchOld

\* An activation leaves the nextTick wait and enters the try block.
RenderProceeds ==
    \E i \in 1..Len(acts) :
        acts[i] = "nextTick" /\ Len(acts') = Len(acts) /\ acts'[i] # "nextTick"

\* C1: as long as no onload() call threw, onload() has been invoked at most
\* once, whatever content changes arrived, and an initialized wrapper has
\* invoked it.
SingleInitialization ==
    /\ ~onloadThrew => onloadCalls <= 1
    /\ onloadCalled => onloadCalls >= 1

\* A content change was seen by the watcher while the first onload() is
\* pending.
SingleInitializationWitness ==
    /\ acts = <<"onload">>
    /\ onloadCalls = 1
    /\ ~onloadThrew
    /\ renderWatchOld[3] # 0
    /\ lastHtmlString # <<renderWatchOld[3]>>

\* C2: when nothing is left to run (no activation, no watcher job) and the
\* root, the content and the entry point are available, the current
\* htmlString is the one that was rendered.
DroppedContentRendered ==
    (/\ lifecycle = "mounted"
     /\ acts = <<>>
     /\ renderWatchOld = WatchedNow
     /\ keyWatchOld = htmlString
     /\ Ready) => lastHtmlString = <<htmlString>>

\* C3: at most one activation is past its guards, and an executeRender call
\* made while the flag is set starts no activation and invokes no entry
\* point.
MutualExclusion ==
    /\ [](Cardinality(InFlight) <= 1)
    /\ [][(executeRenderInProgress /\ WatcherFired) =>
            /\ acts' = acts
            /\ onloadCalls' = onloadCalls
            /\ onrenderCalls' = onrenderCalls]_vars

\* A render request for other content was dropped while a render waits on
\* nextTick.
MutualExclusionWitness ==
    /\ acts = <<"nextTick">>
    /\ executeRenderInProgress
    /\ renderWatchOld[3] # 0
    /\ lastHtmlString # <<renderWatchOld[3]>>

\* C4: once onloadCalled is true, onload() is not invoked again and every
\* render that enters the try block invokes onrender().
AfterInitOnlyOnrender ==
    [][onloadCalled =>
        /\ onloadCalls' = onloadCalls
        /\ RenderProceeds => onrenderCalls' = onrenderCalls + 1]_vars

\* Two re-typesets after one initialization.
AfterInitOnlyOnrenderWitness ==
    onloadCalled /\ onloadCalls = 1 /\ onrenderCalls = 2

\* C5: onrender() is invoked only after an onload() call fulfilled, an
\* activation is inside onrender() only with onloadCalled set, and never
\* while an onload() call is pending.
InitPrecedesRetypeset ==
    /\ onrenderCalls > 0 => onloadOk
    /\ \A i \in 1..Len(acts) : acts[i] = "onrender" => onloadCalled
    /\ \A i, j \in 1..Len(acts) : ~(acts[i] = "onload" /\ acts[j] = "onrender")

\* A first onload() failed, a second one succeeded, then onrender() ran.
InitPrecedesRetypesetWitness ==
    onloadThrew /\ onloadCalls = 2 /\ onrenderCalls = 1

\* C6: an activation that set the flag and is no longer running has cleared
\* it: with no activation in flight the flag is false.
LockReleased == InFlight = {} => ~executeRenderInProgress

\* C7: once root, content and entry point are available (and stay so), an
\* onload() call starts.
FirstRenderHappens == Ready ~> (onloadCalls >= 1 \/ ~Ready)

\* The content became available after the mount and the first onload() runs.
FirstRenderHappensWitness ==
    /\ Ready
    /\ acts = <<"onload">>
    /\ onloadCalls = 1
    /\ changes = 1
    /\ manuscriptKey = 1

(***************************************************************************)
(* Properties of the head injection                                        *)
(***************************************************************************)
\* C8: through one instance, no URL is carried by two inserted elements.
NeverInjectedTwice ==
    \A i \in Instances, u \in FinalUrls : head[<<i, u>>] <= 1

\* C9: a URL inserted through one instance is not inserted through another.
PageWideRecord ==
    \A u \in FinalUrls :
        Cardinality({i \in Instances : head[<<i, u>>] > 0}) <= 1

\* C10: a resolved injectHeadContent call has no script still loading.
ResolvesWhenAllSettled ==
    \A c \in 1..Len(calls) : calls[c].resolved => calls[c].pending = <<>>

(***************************************************************************)
(* processStructuredContent and the embedded scripts                       *)
(***************************************************************************)
\* C11: injectHeadContent never rejects: whatever the head payload and
\* whichever of its scripts load or fail, the promise resolves, so every
\* processStructuredContent call with an init_script eventually executes it.
HeadInjectionAlwaysResolves ==
    \A p \in 1..MaxCalls :
        (Len(procs) >= p /\ procs[p].init)
            ~> (Len(procs) >= p /\ procs[p].initRuns >= 1)

\* A call whose head had a script that failed to load has run its init
\* script.
HeadInjectionAlwaysResolvesWitness ==
    \E p \in 1..Len(procs) :
        /\ procs[p].call # 0
        /\ calls[procs[p].call].failed
        /\ procs[p].initRuns >= 1

\* C12: the init script of a processStructuredContent call runs exactly once
\* (never twice), and only after every external script its head inserted has
\* settled and one scheduling tick has passed.
InitScriptAfterAllScripts ==
    \A p \in 1..Len(procs) :
        /\ procs[p].initRuns <= 1
        /\ procs[p].initRuns >= 1 =>
              /\ procs[p].pc \in {"tick2", "done"}
              /\ procs[p].call # 0 => calls[procs[p].call].pending = <<>>

\* C13: a script node of the mounted content that executeEmbeddedScripts has
\* already re-inserted and run is not run again by a later call against the
\* same mounted content.
EmbeddedScriptsRunOnce ==
    \A s \in EmbeddedScripts : embeddedRuns[s] <= 1

(***************************************************************************)
(* executeRender: the idempotence guard                                    *)
(***************************************************************************)
\* C14: an executeRender call made while props.htmlString equals
\* lastHtmlString calls neither onload() nor onrender(), starts no
\* activation and leaves executeRenderInProgress, lastHtmlString and
\* onloadCalled as they were, whichever watched value made the watcher fire.
IdempotenceGuard ==
    [][(WatcherFired /\ lastHtmlString = <<htmlString>>)
          => UNCHANGED <<executeRenderInProgress, lastHtmlString,
                         onloadCalled, acts, onloadCalls, onrenderCalls>>]_vars

\* The last call returned at the idempotence guard: the lock was free and
\* the refs were there.
IdempotenceGuardWitness ==
    /\ lastOutcome = "sameHtmlString"
    /\ lastHtmlString = <<htmlString>>
    /\ onloadCalls + onrenderCalls >= 1

(***************************************************************************)
(* The rendered math across edits                                          *)
(***************************************************************************)
\* Nothing is queued or suspended: the watchers have seen the current
\* values and no executeRender activation is pending.
Settled ==
    /\ lifecycle = "mounted"
    /\ acts = <<>>
    /\ keyWatchOld = htmlString
    /\ renderWatchOld = WatchedNow

\* C15: across edits that change only non-mathematical text (every content
\* is a non-empty document with the same math), once the first render has
\* succeeded and whenever the renders have settled with no entry point
\* having failed, the math of the mount is typeset exactly once: the count
\* of top-level containers is the one after the first successful render.
MathCountIdempotent ==
    (Settled /\ ~emptySeen /\ onloadCalled /\ ~onloadThrew /\ ~onrenderThrew)
        => mathState = "typeset"

OnloadFails ==
    /\ Cardinality({i \in 1..Len(acts') : acts'[i] = "onload"})
          < Cardinality({i \in 1..Len(acts) : acts[i] = "onload"})
    /\ ~onloadOk'

\* C20: when onload() throws, onloadCalled stays false and
\* executeRenderInProgress is cleared; and as long as every onload() call
\* has failed, a render that reaches its entry point calls onload() again
\* and not onrender().
FailedInitRetried ==
    [][/\ OnloadFails => (~onloadCalled' /\ ~executeRenderInProgress')
       /\ (onloadThrew /\ ~onloadOk /\ RenderProceeds)
             => /\ onloadCalls' = onloadCalls + 1
                /\ onrenderCalls' = onrenderCalls]_vars

\* After a failed onload(), the render of the next content change is inside
\* a second onload() call.
FailedInitRetriedWitness ==
    /\ onloadThrew
    /\ ~onloadOk
    /\ onloadCalls = 2
    /\ onrenderCalls = 0
    /\ acts = <<"onload">>

(***************************************************************************)
(* Failure of a re-typeset                                                 *)
(***************************************************************************)
\* A pending onrender() call settles in this step.
OnrenderSettles ==
    Cardinality({i \in 1..Len(acts') : acts'[i] = "onrender"})
        < Cardinality({i \in 1..Len(acts) : acts[i] = "onrender"})

\* C21: when onrender() throws (as when it fulfils), onloadCalled stays
\* true, and once an onrender() call has thrown every render that reaches
\* its entry point calls onrender() again and not onload().
FailedRetypesetKeepsInitialized ==
    [][/\ OnrenderSettles => onloadCalled'
       /\ (onrenderThrew /\ RenderProceeds)
             => /\ onrenderCalls' = onrenderCalls + 1
                /\ onloadCalls' = onloadCalls]_vars

\* After a failed onrender(), the render of the next content change is
\* inside a second onrender() call.
FailedRetypesetKeepsInitializedWitness ==
    /\ onrenderThrew
    /\ onloadCalled
    /\ onloadCalls = 1
    /\ onrenderCalls = 2
    /\ acts = <<"onrender">>


(***************************************************************************)
(* Containment of render errors                                            *)
(***************************************************************************)
\* C22: the promise returned by executeRender rejects on no path: whatever
\* onload() and onrender() throw is caught and logged inside.
RenderNeverRejects == ~renderRejected


(***************************************************************************)
(* The module reference and the initialized flag                           *)
(***************************************************************************)
\* C24: the rendering module is imported once: when the onload and onrender
\* references are set the import chain has ended and they stay set, and no
\* step of executeRender (a watcher firing, an activation starting, moving
\* or ending) moves the import chain.
ModuleReferenceReuse ==
    [][/\ onload => (onload' /\ importPc = "done" /\ importPc' = "done")
       /\ onrender => onrender'
       /\ importPc' # importPc
             => (acts' = acts /\ ~WatcherFired
                 /\ onloadCalls' = onloadCalls
                 /\ onrenderCalls' = onrenderCalls)]_vars

\* Three renders have used the references of the one import.
ModuleReferenceReuseWitness ==
    /\ importPc = "done"
    /\ onload
    /\ onrender
    /\ onloadCalls + onrenderCalls >= 3

\* A pending onload() call settles in this step.
OnloadSettles ==
    Cardinality({i \in 1..Len(acts') : acts'[i] = "onload"})
        < Cardinality({i \in 1..Len(acts) : acts[i] = "onload"})

\* C25: onloadCalled never goes from true to false, and it goes from false
\* to true only in the step in which an onload() call returns without
\* throwing.
InitializedMonotone ==
    [][/\ onloadCalled => onloadCalled'
       /\ (~onloadCalled /\ onloadCalled')
             => /\ OnloadSettles
                /\ onloadOk'
                /\ onloadThrew' = onloadThrew]_vars

\* The flag was set by the second onload() call, the first having thrown,
\* and has stayed set through a later onrender() failure.
InitializedMonotoneWitness ==
    /\ onloadCalled
    /\ onloadCalls = 2
    /\ onloadThrew
    /\ onrenderThrew

(***************************************************************************)
(* The guards of executeRender                                             *)
(***************************************************************************)
\* C26: the lock and lastHtmlString are assigned in the step that passes the
\* guards: an activation that starts has set the flag and recorded the
\* current htmlString; while an activation is suspended at nextTick or in
\* an entry point the flag is true and lastHtmlString does not change.
RecordedSynchronously ==
    [][/\ Len(acts') > Len(acts)
             => (executeRenderInProgress' /\ lastHtmlString' = <<htmlString>>)
       /\ InFlight # {}
             => /\ executeRenderInProgress
                /\ lastHtmlString' = lastHtmlString]_vars

\* The content changed, and the watcher saw it, while the activation that
\* recorded the earlier content is inside onload().
RecordedSynchronouslyWitness ==
    /\ acts = <<"onload">>
    /\ executeRenderInProgress
    /\ lastHtmlString # <<htmlString>>
    /\ renderWatchOld[3] = htmlString
    /\ lastOutcome = "inProgress"

\* C27: an executeRender call made while the root element, the content or
\* the onload entry point is missing calls no entry point, rejects nothing
\* and leaves executeRenderInProgress, lastHtmlString and onloadCalled as
\* they were.
PreReadyNoOp ==
    [][(WatcherFired /\ (~selfRef \/ htmlString = 0 \/ ~onload))
          => UNCHANGED <<executeRenderInProgress, lastHtmlString,
                         onloadCalled, acts, onloadCalls, onrenderCalls,
                         renderRejected>>]_vars

\* The last call returned at the check of the refs: the root was mounted
\* and the content there, the import still pending.
PreReadyNoOpWitness ==
    /\ lastOutcome = "missingRefs"
    /\ selfRef
    /\ htmlString # 0
    /\ ~onload

\* C28: an executeRender call made while a render is in flight starts no
\* activation, queues nothing, rejects nothing and leaves lastHtmlString,
\* onloadCalled and the flag as they were.
ReentrantDropped ==
    [][(WatcherFired /\ InFlight # {})
          => UNCHANGED <<executeRenderInProgress, lastHtmlString,
                         onloadCalled, acts, onloadCalls, onrenderCalls,
                         renderRejected>>]_vars

\* The last call returned at the in-progress check while the render of
\* another content was suspended at nextTick.
ReentrantDroppedWitness ==
    /\ lastOutcome = "inProgress"
    /\ acts = <<"nextTick">>
    /\ lastHtmlString # <<htmlString>>
    /\ htmlString # 0


(***************************************************************************)
(* A wrapper created anew                                                  *)
(***************************************************************************)
\* The render state as the declarations of <script setup> leave it.
FreshRenderState ==
    /\ ~onloadCalled
    /\ lastHtmlString = <<>>
    /\ ~executeRenderInProgress
    /\ onloadCalls = 0
    /\ onrenderCalls = 0

RecordedBeforeLoadSettles ==
    \A c1, c2 \in 1..Len(calls) :
        c1 < c2 =>
            \A k1 \in 1..Len(calls[c1].pending),
               k2 \in 1..Len(calls[c2].pending) :
                calls[c1].pending[k1] # calls[c2].pending[k2]

\* The URL an element must carry for the declared URL r when the instance
\* has (base) or has not a base URL configured.
ExpectedUrl(r, base) ==
    IF base /\ Len(r) >= 1 /\ r[1] = "static" THEN <<"api">> \o r ELSE r

\* C30: every element inserted into the head carries the API base URL
\* followed by the declared path when that path starts with /static/ and a
\* base URL is configured, and the declared URL unchanged otherwise.
StaticPathRewriting ==
    \A i \in Instances, u \in FinalUrls :
        head[<<i, u>>] > 0 =>
            \E r \in RawUrls : u = ExpectedUrl(r, apiBase[i])

\* With a base URL configured, a /static/ path was inserted rewritten and a
\* URL elsewhere was inserted as declared.
StaticPathRewritingWitness ==
    \E i \in created :
        /\ apiBase[i]
        /\ head[<<i, <<"api", "static", "a">>>>] > 0
        /\ head[<<i, <<"cdn", "b">>>>] > 0

\* C31: every re-creation of the Manuscript child gets typeset: once the
\* key watcher has re-created the child for non-empty content, with onload
\* loaded and no render in flight, an onload() or onrender() call is made
\* before the wrapper comes to rest, also when the new content equals content
\* rendered earlier (A, then empty, then A again).
RecreatedChildTypeset == Settled => ~awaitingTypeset

\* C32: the Manuscript child is re-created on every content change: each
\* time the key watcher sees a changed htmlString, manuscriptKey grows by
\* exactly one, also when the render request of that change is dropped or
\* skipped; manuscriptKey changes in no other step and never decreases, and
\* the increment resets neither onloadCalled nor lastHtmlString.
KeyIncrementsPerChange ==
    [][/\ manuscriptKey' >= manuscriptKey
       /\ keyWatchOld' # keyWatchOld => manuscriptKey' = manuscriptKey + 1
       /\ manuscriptKey' # manuscriptKey =>
              /\ keyWatchOld # htmlString
              /\ manuscriptKey' = manuscriptKey + 1
              /\ onloadCalled' = onloadCalled
              /\ \/ lastHtmlString' = lastHtmlString
                 \/ lastHtmlString' = <<htmlString>>]_vars

\* The second content change arrived while a render was in flight: its
\* render request was dropped and the key has been incremented twice.
KeyIncrementsPerChangeWitness ==
    /\ manuscriptKey = 2
    /\ lastOutcome = "inProgress"
    /\ executeRenderInProgress
    /\ lastHtmlString # <<>>

\* C33: failed content is not retried by itself: lastHtmlString is written
\* only where an activation starts, so it still holds X after the render of
\* X failed; a watcher firing with htmlString equal to lastHtmlString starts
\* no activation and calls no entry point; and an activation starts only at
\* a firing whose htmlString differs from lastHtmlString.
FailedContentNotRetried ==
    [][/\ lastHtmlString' # lastHtmlString => Len(acts') > Len(acts)
       /\ (WatcherFired /\ lastHtmlString = <<htmlString>>) =>
              /\ acts' = acts
              /\ lastHtmlString' = lastHtmlString
              /\ onloadCalls' = onloadCalls
              /\ onrenderCalls' = onrenderCalls
       /\ Len(acts') > Len(acts) =>
              /\ WatcherFired
              /\ lastHtmlString # <<htmlString>>
              /\ lastHtmlString' = <<htmlString>>]_vars

\* The only onload() call failed, and a later firing with the same content
\* returned at the same-htmlString guard: nothing is left to run.
FailedContentNotRetriedWitness ==
    /\ Settled
    /\ onloadThrew
    /\ onloadCalls = 1
    /\ ~onloadCalled
    /\ lastHtmlString = <<htmlString>>
    /\ lastOutcome = "sameHtmlString"

\* C34: a failed module load is tolerated: once one of the three imports of
\* onBeforeMount has rejected, no import is started again, onload and
\* onrender stay null, every executeRender call returns at the pre-ready
\* guard, no entry point is ever invoked and no executeRender promise
\* rejects.
ImportFailureTolerated ==
    [][/\ importPc = "failed" => importPc' = "failed"
       /\ importPc' = "failed" =>
              /\ ~onload' /\ ~onrender'
              /\ acts' = <<>>
              /\ onloadCalls' = 0 /\ onrenderCalls' = 0
              /\ lastOutcome' \in {"none", "missingRefs"}
              /\ lastHtmlString' = <<>>
              /\ ~executeRenderInProgress'
              /\ ~renderRejected']_vars

\* An import has failed, the wrapper is mounted with non-empty content, and
\* a content change made executeRender run: it returned at the first guard.
ImportFailureToleratedWitness ==
    /\ importPc = "failed"
    /\ selfRef
    /\ htmlString # 0
    /\ manuscriptKey >= 1
    /\ lastOutcome = "missingRefs"
    /\ renderWatchOld = WatchedNow

\* C35: import order: jquery, then tooltipster, then onload.js, each started
\* only when the one before it has resolved; onload and onrender are set
\* only once all three have resolved, and no activation of executeRender
\* gets past its guards before that.
ImportOrder ==
    [][/\ importPc' # importPc =>
              \/ <<importPc, importPc'>> \in
                     {<<"none", "jquery">>, <<"jquery", "tooltipster">>,
                      <<"tooltipster", "onloadjs">>, <<"onloadjs", "done">>}
              \/ importPc \in {"jquery", "tooltipster", "onloadjs"}
                     /\ importPc' = "failed"
       /\ (onload' \/ onrender') => importPc' = "done"
       /\ Len(acts') > Len(acts) => importPc = "done"
       /\ (onloadCalls' # onloadCalls \/ onrenderCalls' # onrenderCalls)
              => importPc = "done"]_vars

\* All three imports resolved in order and an entry point has been called.
ImportOrderWitness ==
    /\ importPc = "done"
    /\ onload
    /\ onrender
    /\ onloadCalls >= 1

\* C36: every payload processed with a manuscript reference has had
\* executeEmbeddedScripts called for it by the time its processing is done,
\* a payload without init_script included, and that call never comes before
\* the payload's init script has run.
EmbeddedScriptsForEveryPayload ==
    \A p \in 1..Len(procs) :
        /\ (procs[p].pc = "done" /\ procs[p].ref) => procs[p].embeddedCalls >= 1
        /\ (procs[p].embeddedCalls >= 1 /\ procs[p].init) =>
               procs[p].initRuns >= 1

\* C37: executeInitScript leaves no residue: after every call, whether the
\* script ran, threw, could not be attached or detached itself, no node that
\* the function created is a child of document.body, and no call has thrown
\* to its caller.
InitScriptLeavesNoResidue ==
    /\ bodyScripts = 0
    /\ ~initScriptThrew

\* One executeInitScript call ran normally and another one raised inside
\* its try block.
InitScriptLeavesNoResidueWitness ==
    /\ \E p \in 1..Len(procs) :
           procs[p].initRuns >= 1 /\ procs[p].initRaised
    /\ \E p \in 1..Len(procs) :
           procs[p].initRuns >= 1 /\ ~procs[p].initRaised

\* C38: with no watcher firing while a render is in flight, the final
\* executeRender and the variant without the in-progress flag make the same
\* onload() and onrender() calls (in both, every onload() call precedes
\* every onrender() call, so the counts give the sequence) and have the
\* same lastHtmlString and onloadCalled after each firing.
FlagOnlyMattersUnderOverlap ==
    /\ [](/\ onloadCalls = vOnloadCalls
          /\ onrenderCalls = vOnrenderCalls
          /\ lastHtmlString = vLastHtmlString)
    /\ [][WatcherFired => onloadCalled' = vOnloadCalled']_vars

====
